---- MODULE Spec2Model ----
(***************************************************************************)
(* Model of the MJ18 divisibility-proof scheme of                          *)
(* src/our_scheme/test/charm_auth_test.py: the polynomial engine           *)
(* (polynomial_multiply, polynomial_division, verify_polynomial_division)  *)
(* and the scheme instance (setup, prove, verify).                         *)
(*                                                                         *)
(* The pairing group is modelled by a group of small prime order Q.        *)
(* A scalar (ZR) is a residue 0..Q-1.  A G1 element is written as its      *)
(* exponent to a fixed base generator, so the group product is the sum of  *)
(* exponents, x ** k is the product x*k, and the pairing of two elements   *)
(* is the product of their exponents (an exponent of the GT generator).    *)
(***************************************************************************)
EXTENDS Integers, Sequences, FiniteSets, TLC

VARIABLES self, PK, VK, proof, proof2, verdict, stale, polyP, polyT, polyOut

vars == <<self, PK, VK, proof, proof2, verdict, stale, polyP, polyT, polyOut>>

\* Order of the scalar field and of the groups (PairingGroup('SS512') in the
\* source; a small prime here).
Q == 3

\* Largest degree the instance is constructed with.
MaxDegree == 2

\* How many coefficients beyond d+1 a caller may pass to prove.
MaxExcess == 1

\* Longest coefficient list handed to the polynomial engine on its own.
MaxPolyLen == 3

ZR == 0 .. (Q - 1)

\* group.random(G1): a generator, i.e. any element but the identity.
G1Random == 1 .. (Q - 1)

\* group.init(G1, 1): the identity of G1.
G1Identity == 0

\* group.init(ZR, 0)
zero == 0

\* Coefficient lists of length lo..hi.
Polys(lo, hi) == UNION { [1 .. n -> ZR] : n \in lo .. hi }

Max(a, b) == IF a >= b THEN a ELSE b

---------------------------------------------------------------------------
\* Scalar and group arithmetic of the pairing library.

ZrAdd(a, b) == (a + b) % Q

ZrSub(a, b) == (a - b) % Q

ZrMul(a, b) == (a * b) % Q

\* s ** i on ZR, by repeated multiplication; s ** 0 is 1.
RECURSIVE ZrPow(_, _)
ZrPow(a, i) == IF i = 0 THEN 1 % Q ELSE ZrMul(a, ZrPow(a, i - 1))

\* The inverse of a non-zero scalar.
ZrInv(b) == CHOOSE x \in ZR : ZrMul(b, x) = 1

\* What a division by the zero scalar does is not defined by the library:
\* it may raise, or hand back any scalar as the "inverse".
DivZeroOutcomes ==
    { [raise |-> TRUE, inv |-> zero] } \cup { [raise |-> FALSE, inv |-> v] : v \in ZR }

\* The outcomes that matter when dividing by t[0]: the division is by zero
\* only if t[0] is zero while t is not the zero polynomial (which is refused
\* before any division).
DivZeroCases(t) ==
    IF t # <<>> /\ t[1] = zero /\ \E k \in 1 .. Len(t) : t[k] # zero
    THEN DivZeroOutcomes
    ELSE { [raise |-> TRUE, inv |-> zero] }

\* a / b on ZR; dz is the outcome of a division by zero, should one happen.
ZrDiv(a, b, dz) == IF b = zero THEN ZrMul(a, dz.inv) ELSE ZrMul(a, ZrInv(b))

\* x ** k on G1.
G1Pow(x, k) == (x * k) % Q

\* x * y on G1.
G1Mul(x, y) == (x + y) % Q

\* pair(x, y): bilinear, e(G^a, G^b) = e(G, G)^(a*b).
pair(x, y) == (x * y) % Q

\* sum(c[i] * (s ** i) for i in range(len(c))): the polynomial c at s.
RECURSIVE EvalFrom(_, _, _)
EvalFrom(c, x, k) ==
    IF k > Len(c) THEN 0
    ELSE ZrAdd(ZrMul(c[k], ZrPow(x, k - 1)), EvalFrom(c, x, k + 1))

Eval(c, x) == EvalFrom(c, x, 1)

---------------------------------------------------------------------------
\* Polynomial engine.  Python index i is index i+1 here.

\* The sum of a[i]*b[j] over the pairs with i + j = k (Python indices).
RECURSIVE ConvTerm(_, _, _, _)
ConvTerm(a, b, k, i) ==
    IF i > Len(a) THEN 0
    ELSE LET j == k - (i - 1) + 1
             term == IF j >= 1 /\ j <= Len(b) THEN ZrMul(a[i], b[j]) ELSE 0
         IN  ZrAdd(term, ConvTerm(a, b, k, i + 1))

polynomial_multiply(a, b) ==
    LET result_degree == Len(a) + Len(b) - 2
    IN  [k \in 1 .. Max(result_degree + 1, 0) |-> ConvTerm(a, b, k - 1, 1)]

\* remainder[i + j] -= coef * t[j] for j in range(len(t))
SubtractShifted(remainder, t, i, coef) ==
    [k \in 1 .. Len(remainder) |->
        IF k >= i /\ k < i + Len(t)
        THEN ZrSub(remainder[k], ZrMul(coef, t[k - i + 1]))
        ELSE remainder[k]]

\* The long-division loop from index i (1-based) to last.
RECURSIVE DivisionLoop(_, _, _, _, _, _)
DivisionLoop(i, last, quotient, remainder, t, dz) ==
    IF i > last THEN [status |-> "ok", quotient |-> quotient, remainder |-> remainder]
    ELSE IF remainder[i] = zero
         THEN DivisionLoop(i + 1, last, quotient, remainder, t, dz)
    ELSE IF t[1] = zero /\ dz.raise
         THEN [status |-> "ZeroDivision", quotient |-> <<>>, remainder |-> <<>>]
    ELSE LET coef == ZrDiv(remainder[i], t[1], dz)
         IN  DivisionLoop(i + 1, last, [quotient EXCEPT ![i] = coef],
                          SubtractShifted(remainder, t, i, coef), t, dz)

\* while remainder and remainder[-1] == zero: remainder.pop()
RECURSIVE Trim(_)
Trim(r) ==
    IF r # <<>> /\ r[Len(r)] = zero THEN Trim(SubSeq(r, 1, Len(r) - 1)) ELSE r

polynomial_division(p, t, dz) ==
    IF Len(t) = 0 \/ \A k \in 1 .. Len(t) : t[k] = zero
    THEN [status |-> "ValueError", quotient |-> <<>>, remainder |-> <<>>]
    ELSE LET n == Max(Len(p) - Len(t) + 1, 0)
             out == DivisionLoop(1, n, [k \in 1 .. n |-> zero], p, t, dz)
         IN  IF out.status = "ok"
             THEN [out EXCEPT !.remainder = Trim(out.remainder)]
             ELSE out

\* product[i] += remainder[i], appending where product is shorter.
AddRemainder(product, remainder) ==
    [k \in 1 .. Max(Len(product), Len(remainder)) |->
        IF k > Len(remainder) THEN product[k]
        ELSE IF k > Len(product) THEN remainder[k]
        ELSE ZrAdd(product[k], remainder[k])]

verify_polynomial_division(p, t, quotient, remainder) ==
    LET product == AddRemainder(polynomial_multiply(quotient, t), remainder)
    IN  Len(p) = Len(product) /\ \A k \in 1 .. Len(p) : p[k] = product[k]

---------------------------------------------------------------------------
\* The scheme instance (class MJ18).  self is the instance's attribute
\* dictionary: MJ18(group, d) sets d, setup() adds s, alpha, g and t_coeffs.

\* Number of target coefficients setup samples: range(1).
TargetLen == 1

\* MJ18.setup with the values its four random draws return.
setup(me, s, alpha, g, t_coeffs) ==
    LET g_alpha     == G1Pow(g, alpha)
        g_s_i       == [i \in 1 .. me.d + 1 |-> G1Pow(g, ZrPow(s, i - 1))]
        g_alpha_s_i == [i \in 1 .. me.d + 1 |->
                           G1Pow(g, ZrMul(alpha, ZrPow(s, i - 1)))]
        t_s         == Eval(t_coeffs, s)
        gt_s        == G1Pow(g, t_s)
    IN  [self |-> [d |-> me.d, s |-> s, alpha |-> alpha, g |-> g,
                   t_coeffs |-> t_coeffs],
         PK   |-> <<g_s_i, g_alpha_s_i>>,
         VK   |-> <<g_alpha, gt_s>>]

\* acc = init(G1, 1); for i in range(n): acc *= bases[i] ** coeffs[i]
RECURSIVE CommitFrom(_, _, _, _)
CommitFrom(bases, coeffs, n, i) ==
    IF i > n THEN G1Identity
    ELSE G1Mul(G1Pow(bases[i], coeffs[i]), CommitFrom(bases, coeffs, n, i + 1))

\* Whether that loop reads past the end of one of its two lists.
CommitRaises(bases, coeffs, n) == n > Len(bases) \/ n > Len(coeffs)

NoProof(status) == [status |-> status, pi |-> <<>>]

\* MJ18.prove(PK, VC) with delta the blinding scalar it draws.
prove(me, pk, VC, delta, dz) ==
    LET g_s_i       == pk[1]
        g_alpha_s_i == pk[2]
        p_coeffs    == VC
        p_s         == Eval(p_coeffs, me.s)
        gp_s        == G1Pow(me.g, p_s)
        division    == polynomial_division(p_coeffs, me.t_coeffs, dz)
        h_coeffs    == division.quotient
        r_coeffs    == division.remainder
    IN  IF division.status # "ok" THEN NoProof(division.status)
        ELSE IF CommitRaises(g_s_i, h_coeffs, Len(h_coeffs)) THEN NoProof("IndexError")
        ELSE IF CommitRaises(g_s_i, r_coeffs, Len(r_coeffs)) THEN NoProof("IndexError")
        ELSE IF CommitRaises(g_alpha_s_i, p_coeffs, me.d + 1) THEN NoProof("IndexError")
        ELSE LET gh_s        == CommitFrom(g_s_i, h_coeffs, Len(h_coeffs), 1)
                 g_alpha_p_s == CommitFrom(g_alpha_s_i, p_coeffs, me.d + 1, 1)
             IN  [status |-> "ok",
                  pi     |-> <<G1Pow(gp_s, delta), G1Pow(gh_s, delta),
                               G1Pow(g_alpha_p_s, delta)>>]

\* verify with the cofactor check pairing the quotient commitment with g
\* instead of g^t(s).
verify_without_target(me, vk, pi) ==
    LET pair_1 == pair(pi[3], me.g)
        pair_2 == pair(pi[1], vk[1])
        pair_3 == pair(pi[1], me.g)
        pair_4 == pair(pi[2], me.g)
    IN  (pair_1 = pair_2) /\ (pair_3 = pair_4)

\* MJ18.verify(VK, pi)
verify(me, vk, pi) ==
    LET g_delta_p_s       == pi[1]
        g_delta_h_s       == pi[2]
        g_delta_alpha_p_s == pi[3]
        g_alpha           == vk[1]
        g_t_s             == vk[2]
        pair_1 == pair(g_delta_alpha_p_s, me.g)
        pair_2 == pair(g_delta_p_s, g_alpha)
        pair_3 == pair(g_delta_p_s, me.g)
        pair_4 == pair(g_delta_h_s, g_t_s)
        is_valid_restriction == (pair_1 = pair_2)
        is_valid_cofactor    == (pair_3 = pair_4)
    IN  is_valid_restriction /\ is_valid_cofactor

---------------------------------------------------------------------------
\* A caller driving one instance: it keeps the keys setup returned, the
\* outcome of its last prove call (and of a second prove of the same
\* polynomial), and the verdict of its last verify call.

NoCall == [status |-> "none", VC |-> <<>>, delta |-> 0, pi |-> <<>>, stale |-> FALSE]

NoVerdict == [status |-> "none", which |-> 0, result |-> FALSE]

NoPoly == [op |-> "none", status |-> "none", quotient |-> <<>>,
           remainder |-> <<>>, product |-> <<>>, exact |-> FALSE]

\* The record the caller keeps of a prove call.
ProveCall(VC, delta, dz) ==
    LET out == prove(self, PK, VC, delta, dz)
    IN  [status |-> out.status, VC |-> VC,
         delta  |-> IF out.status = "ok" THEN delta ELSE 0,
         pi     |-> out.pi, stale |-> stale]

Init ==
    /\ self \in { [d |-> degree] : degree \in 0 .. MaxDegree }
    /\ PK = <<>>
    /\ VK = <<>>
    /\ proof = NoCall
    /\ proof2 = NoCall
    /\ verdict = NoVerdict
    /\ stale = FALSE
    /\ polyP = <<>>
    /\ polyT = <<>>
    /\ polyOut = NoPoly

\* The first setup() on the instance; the caller keeps PK and VK.
Setup ==
    /\ "g" \notin DOMAIN self
    /\ \E s \in ZR, alpha \in ZR, g \in G1Random, t_coeffs \in [1 .. TargetLen -> ZR] :
          LET out == setup(self, s, alpha, g, t_coeffs)
          IN  /\ self' = out.self
              /\ PK' = out.PK
              /\ VK' = out.VK
    /\ UNCHANGED <<proof, proof2, verdict, stale, polyP, polyT, polyOut>>

\* A further setup() on the same instance, run while the caller holds a
\* proof; its keys go to somebody else and the caller goes on with the keys
\* of the first one.  One such call is explored.
ReSetup ==
    /\ "g" \in DOMAIN self
    /\ proof.status = "ok"
    /\ ~stale
    /\ \E s \in ZR, alpha \in ZR, g \in G1Random, t_coeffs \in [1 .. TargetLen -> ZR] :
          self' = setup(self, s, alpha, g, t_coeffs).self
    /\ stale' = TRUE
    /\ UNCHANGED <<PK, VK, proof, proof2, verdict, polyP, polyT, polyOut>>

\* pi = prove(PK, VC), the caller's first prove call.
Prove ==
    /\ PK # <<>>
    /\ proof.status = "none"
    /\ \E VC \in Polys(0, self.d + 1 + MaxExcess), delta \in ZR,
          dz \in DivZeroCases(self.t_coeffs) :
          proof' = ProveCall(VC, delta, dz)
    /\ proof2' = NoCall
    /\ verdict' = NoVerdict
    /\ UNCHANGED <<self, PK, VK, stale, polyP, polyT, polyOut>>

\* A second prove(PK, VC) of the same polynomial, drawing another delta.
ProveAgain ==
    /\ proof.status # "none"
    /\ proof2.status = "none"
    /\ \E delta \in ZR, dz \in DivZeroCases(self.t_coeffs) :
          /\ proof.status = "ok" => delta # proof.delta
          /\ proof2' = ProveCall(proof.VC, delta, dz)
    /\ UNCHANGED <<self, PK, VK, proof, verdict, stale, polyP, polyT, polyOut>>

\* verified = verify(VK, pi), for either proof the caller holds.
Verify ==
    /\ VK # <<>>
    /\ \E which \in {1, 2} :
          LET call == IF which = 1 THEN proof ELSE proof2
          IN  /\ call.status = "ok"
              /\ verdict' = [status |-> "done", which |-> which,
                             result |-> verify(self, VK, call.pi)]
    /\ UNCHANGED <<self, PK, VK, proof, proof2, stale, polyP, polyT, polyOut>>

Next == Setup \/ Prove \/ ProveAgain \/ Verify

Spec == Init /\ [][Next]_vars

\* The same caller while other setup() calls run on the instance.
NextReSetup == Setup \/ ReSetup \/ Prove \/ Verify

SpecReSetup == Init /\ [][NextReSetup]_vars

---------------------------------------------------------------------------
\* The polynomial engine on its own, on every pair of coefficient lists.

InitPoly ==
    /\ self = [d |-> 0]
    /\ PK = <<>>
    /\ VK = <<>>
    /\ proof = NoCall
    /\ proof2 = NoCall
    /\ verdict = NoVerdict
    /\ stale = FALSE
    /\ polyP \in Polys(0, MaxPolyLen)
    /\ polyT \in Polys(0, MaxPolyLen)
    /\ polyOut = NoPoly

\* product = polynomial_multiply(a, b)
Multiply ==
    /\ polyOut.op = "none"
    /\ polyOut' = [NoPoly EXCEPT !.op = "multiply", !.status = "ok",
                                 !.product = polynomial_multiply(polyP, polyT)]
    /\ UNCHANGED <<self, PK, VK, proof, proof2, verdict, stale, polyP, polyT>>

\* quotient, remainder = polynomial_division(p, t, group)
Divide ==
    /\ polyOut.op = "none"
    /\ \E dz \in DivZeroCases(polyT) :
          LET out == polynomial_division(polyP, polyT, dz)
          IN  polyOut' = [NoPoly EXCEPT !.op = "divide", !.status = out.status,
                                       !.quotient = out.quotient,
                                       !.remainder = out.remainder]
    /\ UNCHANGED <<self, PK, VK, proof, proof2, verdict, stale, polyP, polyT>>

\* verify_polynomial_division(p, t, quotient, remainder, group)
CheckDivision ==
    /\ polyOut.op = "divide"
    /\ polyOut.status = "ok"
    /\ polyOut' = [polyOut EXCEPT !.op = "checked",
                      !.exact = verify_polynomial_division(polyP, polyT,
                                    polyOut.quotient, polyOut.remainder)]
    /\ UNCHANGED <<self, PK, VK, proof, proof2, verdict, stale, polyP, polyT>>

NextPoly == Multiply \/ Divide \/ CheckDivision

SpecPoly == InitPoly /\ [][NextPoly]_vars

---------------------------------------------------------------------------
\* Polynomial algebra the claims are stated in, defined independently of the
\* engine above.

\* The coefficient of x^k in a*b (k counted from 0).
ProductCoef(a, b, k) ==
    LET pairs == { ij \in (1 .. Len(a)) \X (1 .. Len(b)) : (ij[1] - 1) + (ij[2] - 1) = k }
        RECURSIVE Sum(_)
        Sum(S) == IF S = {} THEN 0
                  ELSE LET x == CHOOSE y \in S : TRUE
                       IN  a[x[1]] * b[x[2]] + Sum(S \ {x})
    IN  Sum(pairs) % Q

\* The coefficient of x^k in c (k counted from 0), zero beyond its length.
Coef(c, k) == IF k + 1 <= Len(c) THEN c[k + 1] ELSE 0

\* p = h*t as polynomials.
IsProduct(p, h, t) ==
    \A k \in 0 .. (Len(p) + Len(h) + Len(t)) : Coef(p, k) = ProductCoef(h, t, k)

\* p is divisible by t: p = h*t for some h.
IsMultiple(p, t) == \E h \in Polys(0, Len(p)) : IsProduct(p, h, t)

NonZero(t) == t # <<>> /\ \E k \in 1 .. Len(t) : t[k] # zero

\* The error prove answers an over-long polynomial with.
DegreeExceeded == "IndexError"

---------------------------------------------------------------------------
\* Claims.

\* C1: completeness.  For every setup outcome (with a target t that is not
\* the zero polynomial) and every polynomial p of degree at most d
\* (len(p) <= d+1) that is an exact multiple of t, prove returns a proof and
\* verify returns true for it.
C1_Completeness ==
    (/\ proof.status # "none"
     /\ NonZero(self.t_coeffs)
     /\ Len(proof.VC) <= self.d + 1
     /\ IsMultiple(proof.VC, self.t_coeffs))
    => /\ proof.status = "ok"
       /\ (verdict.status = "done" /\ verdict.which = 1) => verdict.result

\* C3: division exactness.  For every p and every t that is neither empty
\* nor identically zero, the quotient and remainder the division returns
\* satisfy quotient*t + remainder = p coefficient by coefficient, as
\* verify_polynomial_division decides it.
C3_DivisionExact ==
    (polyOut.op = "checked" /\ NonZero(polyT)) => polyOut.exact

\* C4: once setup has returned, the instance holds neither s nor alpha, and
\* the proof prove returns does not depend on s.
C4_TrapdoorDiscarded ==
    "g" \in DOMAIN self
    => /\ "s" \notin DOMAIN self
       /\ "alpha" \notin DOMAIN self
       /\ proof.status = "ok" =>
             \A x \in ZR, dz \in DivZeroCases(self.t_coeffs) :
                prove([self EXCEPT !.s = x], PK, proof.VC, proof.delta, dz).pi = proof.pi

\* C5: degree bound.  prove of a polynomial with more than d+1 coefficients
\* fails with the degree error: it returns no proof and fails with no other
\* error.
C5_DegreeBound ==
    (proof.status # "none" /\ Len(proof.VC) > self.d + 1)
    => proof.status = DegreeExceeded

\* C6: calls share no state.  A proof made with the PK of one setup call
\* verifies against the VK of that same call, whatever other setup calls
\* have run on the instance in between.
C6_KeysOutliveSetup ==
    (verdict.status = "done" /\ verdict.which = 1 /\ proof.status = "ok")
    => verdict.result

\* C7: divisibility detection.  For t neither empty nor identically zero
\* (and written without trailing zero coefficients), the remainder the
\* division returns is empty exactly when p is a multiple of t.
C7_RemainderDetects ==
    (/\ polyOut.op = "divide"
     /\ polyOut.status = "ok"
     /\ NonZero(polyT)
     /\ polyT[Len(polyT)] # zero)
    => (polyOut.remainder = <<>> <=> IsMultiple(polyP, polyT))

\* C8: blinding.  For every p of degree at most d divisible by a non-zero
\* t, two prove calls with different blinding scalars return different
\* triples, and verify returns true for each of them.
C8_Blinding ==
    (/\ proof.status # "none"
     /\ proof2.status # "none"
     /\ NonZero(self.t_coeffs)
     /\ Len(proof.VC) <= self.d + 1
     /\ IsMultiple(proof.VC, self.t_coeffs))
    => /\ proof.status = "ok"
       /\ proof2.status = "ok"
       /\ proof.pi # proof2.pi
       /\ verdict.status = "done" => verdict.result

\* C9: multiply returns the convolution of a and b, of length
\* len(a)+len(b)-1, when both are non-empty, and the empty list when either
\* is empty.
C9_Multiply ==
    polyOut.op = "multiply"
    => IF polyP = <<>> \/ polyT = <<>>
       THEN polyOut.product = <<>>
       ELSE /\ Len(polyOut.product) = Len(polyP) + Len(polyT) - 1
            /\ \A k \in 1 .. Len(polyOut.product) :
                  polyOut.product[k] = ProductCoef(polyP, polyT, k - 1)

\* C10: the run the test makes always accepts.  On a fresh instance, after
\* setup has drawn a non-zero t_coeffs[0], prove of any VC of exactly d+1
\* coefficients returns a proof, its division by the constant t leaves an
\* empty remainder, and verify returns true.
C10_TestRunAccepts ==
    (/\ proof.status # "none"
     /\ Len(proof.VC) = self.d + 1
     /\ self.t_coeffs[1] # zero)
    => /\ proof.status = "ok"
       /\ \A dz \in DivZeroCases(self.t_coeffs) :
             polynomial_division(proof.VC, self.t_coeffs, dz).remainder = <<>>
       /\ verdict.status = "done" => verdict.result

\* A run of the test's shape that ends accepted, with a proof that is not
\* the identity triple.
C10_Witness ==
    /\ proof.status = "ok"
    /\ Len(proof.VC) = self.d + 1
    /\ self.d >= 1
    /\ self.t_coeffs[1] # zero
    /\ proof.pi[1] # G1Identity
    /\ proof.pi[2] # G1Identity
    /\ verdict.status = "done"
    /\ verdict.which = 1
    /\ verdict.result

====
